---- MODULE Spec2Model ----
(***************************************************************************)
(* Model of the toy-project repository:                                    *)
(*   - build_all.py          : the build orchestrator (preflight, one      *)
(*                             build attempt per package, summary, exit)   *)
(*   - toy_package_b/__init__: the exposed __version__ (metadata lookup    *)
(*                             with a fixed fallback)                      *)
(*   - tests/test_version.py : the version verification suite              *)
(* Strings whose contents matter (versions, tags) are sequences of         *)
(* one-character strings.                                                  *)
(***************************************************************************)
EXTENDS Integers, Sequences, FiniteSets, TLC

VARIABLES
    \* ---- build_all.py ----
    pc,               \* position of main(): "preflight", "loop", "summary", "exited"
    buildImportable,  \* environment: does `import build` succeed
    dirExists,        \* environment: package name -> Path(name).exists()
    i,                \* index of the next element of PACKAGES in the for loop
    success_count,
    failed_packages,
    results,          \* return values of build_package, in call order
    calls,            \* external interactions, in order (exists / subprocess.run)
    stdout,           \* printed lines, in order
    exitCode,         \* process exit code, NoExit while running
    \* ---- toy_package_b and its test suite ----
    metadata,         \* environment: distribution name -> installed metadata
    module,           \* sys.modules['toy_package_b']: loaded?, its __version__
    packagingInstalled, \* environment: is the `packaging` library importable
    git,              \* environment: what `git describe --tags` does
    ran               \* the test last run: its outcome and what it observed

orchVars == <<pc, buildImportable, dirExists, i, success_count,
              failed_packages, results, calls, stdout, exitCode>>

suiteVars == <<metadata, module, packagingInstalled, git, ran>>

vars == <<orchVars, suiteVars>>

----------------------------------------------------------------------------
(* Bounds *)
MaxReturnCode == 3

\* longest version string / tag drawn when the string functions are checked
MaxStrLen == 6

MaxTagLen == 3

MaxVerLen == 3

----------------------------------------------------------------------------
(* build_all.py *)

PACKAGES == <<"toy_package_a", "toy_package_b">>

NoExit == -1

Range(s) == {s[k] : k \in 1..Len(s)}

Line(tag, pkg, n) == [tag |-> tag, pkg |-> pkg, n |-> n]

Call(op, pkg, res) == [op |-> op, pkg |-> pkg, res |-> res]

\* What subprocess.run can do: return a CompletedProcess with a return code,
\* or raise while launching the child.
LaunchExceptions == {"FileNotFoundError", "PermissionError"}

RunOutcomes ==
    {[kind |-> "returned", rc |-> r, exc |-> "-"] : r \in 0..MaxReturnCode}
    \cup {[kind |-> "raised", rc |-> 0, exc |-> e] : e \in LaunchExceptions}

\* build_package without the early return of lines 17-19.
build_package_no_exists_check(package_name, exists, run) ==
    IF run.kind = "returned" /\ run.rc = 0
    THEN [ret   |-> TRUE,
          calls |-> <<Call("run", package_name, ToString(run.rc))>>,
          out   |-> <<Line("BUILD", package_name, 0),
                      Line("OK", package_name, 0)>>]
    ELSE [ret   |-> FALSE,
          calls |-> <<Call("run", package_name, run.exc)>>,
          out   |-> <<Line("BUILD", package_name, 0),
                      Line("ERROR_FAILED", package_name, 0)>>]

\* build_package(package_name): the value returned, the external calls made
\* and the lines printed, given the directory state and what subprocess.run
\* does when it is reached.
build_package(package_name, exists, run) ==
    IF ~exists
    THEN [ret   |-> FALSE,
          calls |-> <<Call("exists", package_name, "False")>>,
          out   |-> <<Line("ERROR_NODIR", package_name, 0)>>]
    ELSE IF run.kind = "returned"
    THEN IF run.rc = 0
         THEN [ret   |-> TRUE,
               calls |-> <<Call("exists", package_name, "True"),
                           Call("run", package_name, ToString(run.rc))>>,
               out   |-> <<Line("BUILD", package_name, 0),
                           Line("OK", package_name, 0)>>]
         ELSE [ret   |-> FALSE,
               calls |-> <<Call("exists", package_name, "True"),
                           Call("run", package_name, ToString(run.rc))>>,
               out   |-> <<Line("BUILD", package_name, 0),
                           Line("ERROR_FAILED", package_name, 0),
                           Line("STDERR", package_name, 0)>>]
    ELSE [ret   |-> FALSE,
          calls |-> <<Call("exists", package_name, "True"),
                      Call("run", package_name, run.exc)>>,
          out   |-> <<Line("BUILD", package_name, 0),
                      Line("ERROR_EXCEPTION", package_name, 0)>>]

OrchInit ==
    /\ pc = "preflight"
    /\ buildImportable \in BOOLEAN
    /\ dirExists \in [Range(PACKAGES) -> BOOLEAN]
    /\ i = 1
    /\ success_count = 0
    /\ failed_packages = <<>>
    /\ results = <<>>
    /\ calls = <<>>
    /\ stdout = <<>>
    /\ exitCode = NoExit

\* Preflight that prints the guidance but does not exit.
PreflightNoExit ==
    /\ pc = "preflight"
    /\ pc' = "loop"
    /\ stdout' = stdout \o <<Line("BANNER", "-", 0)>>
                        \o (IF buildImportable THEN <<>>
                            ELSE <<Line("ERROR_NOBUILD", "-", 0)>>)
    /\ exitCode' = exitCode
    /\ success_count' = 0
    /\ failed_packages' = <<>>
    /\ UNCHANGED <<buildImportable, dirExists, i, results, calls>>
    /\ UNCHANGED suiteVars

\* main(), lines 46-59: banner, `import build`, initialise the counters.
Preflight ==
    /\ pc = "preflight"
    /\ IF buildImportable
       THEN /\ pc' = "loop"
            /\ stdout' = stdout \o <<Line("BANNER", "-", 0)>>
            /\ exitCode' = exitCode
       ELSE /\ pc' = "exited"
            /\ stdout' = stdout \o <<Line("BANNER", "-", 0),
                                     Line("ERROR_NOBUILD", "-", 0)>>
            /\ exitCode' = 1
    /\ success_count' = 0
    /\ failed_packages' = <<>>
    /\ UNCHANGED <<buildImportable, dirExists, i, results, calls>>
    /\ UNCHANGED suiteVars

\* Loop body that counts every attempt as a success.
LoopBodyCountsAll(run) ==
    /\ pc = "loop"
    /\ i <= Len(PACKAGES)
    /\ LET package == PACKAGES[i]
           r == build_package(package, dirExists[package], run)
       IN  /\ calls' = calls \o r.calls
           /\ stdout' = stdout \o r.out
           /\ results' = Append(results, [pkg |-> package, ok |-> r.ret])
           /\ success_count' = success_count + 1
           /\ failed_packages' = IF r.ret THEN failed_packages
                                  ELSE Append(failed_packages, package)
    /\ i' = i + 1
    /\ pc' = IF i + 1 > Len(PACKAGES) THEN "summary" ELSE "loop"
    /\ UNCHANGED <<buildImportable, dirExists, exitCode>>
    /\ UNCHANGED suiteVars

\* Loop body that leaves the loop at the first failed package.
LoopBodyBreakOnFailure(run) ==
    /\ pc = "loop"
    /\ i <= Len(PACKAGES)
    /\ LET package == PACKAGES[i]
           r == build_package(package, dirExists[package], run)
       IN  /\ calls' = calls \o r.calls
           /\ stdout' = stdout \o r.out
           /\ results' = Append(results, [pkg |-> package, ok |-> r.ret])
           /\ IF r.ret
              THEN /\ success_count' = success_count + 1
                   /\ failed_packages' = failed_packages
              ELSE /\ success_count' = success_count
                   /\ failed_packages' = Append(failed_packages, package)
           /\ pc' = IF i + 1 > Len(PACKAGES) \/ ~r.ret THEN "summary" ELSE "loop"
    /\ i' = i + 1
    /\ UNCHANGED <<buildImportable, dirExists, exitCode>>
    /\ UNCHANGED suiteVars

\* One iteration of `for package in PACKAGES`, lines 61-65.
LoopBody(run) ==
    /\ pc = "loop"
    /\ i <= Len(PACKAGES)
    /\ LET package == PACKAGES[i]
           r == build_package(package, dirExists[package], run)
       IN  /\ calls' = calls \o r.calls
           /\ stdout' = stdout \o r.out
           /\ results' = Append(results, [pkg |-> package, ok |-> r.ret])
           /\ IF r.ret
              THEN /\ success_count' = success_count + 1
                   /\ failed_packages' = failed_packages
              ELSE /\ success_count' = success_count
                   /\ failed_packages' = Append(failed_packages, package)
    /\ i' = i + 1
    /\ pc' = IF i + 1 > Len(PACKAGES) THEN "summary" ELSE "loop"
    /\ UNCHANGED <<buildImportable, dirExists, exitCode>>
    /\ UNCHANGED suiteVars

BuildStep == \E run \in RunOutcomes : LoopBody(run)

\* Summary that forgets the sys.exit(1) of line 75.
SummarizeNoExitOne ==
    /\ pc = "summary"
    /\ stdout' = stdout
           \o <<Line("SUMMARY", "-", success_count)>>
           \o (IF failed_packages # <<>>
               THEN <<Line("FAILED_HEADER", "-", 0)>>
                    \o [k \in 1..Len(failed_packages) |->
                           Line("FAILED_ITEM", failed_packages[k], 0)]
               ELSE <<Line("ALL_OK", "-", 0)>>)
    /\ exitCode' = 0
    /\ pc' = "exited"
    /\ UNCHANGED <<buildImportable, dirExists, i, success_count,
                   failed_packages, results, calls>>
    /\ UNCHANGED suiteVars

\* main(), lines 67-80: the summary and the exit code.
Summarize ==
    /\ pc = "summary"
    /\ IF failed_packages # <<>>
       THEN /\ stdout' = stdout
                  \o <<Line("SUMMARY", "-", success_count)>>
                  \o <<Line("FAILED_HEADER", "-", 0)>>
                  \o [k \in 1..Len(failed_packages) |->
                         Line("FAILED_ITEM", failed_packages[k], 0)]
            /\ exitCode' = 1
       ELSE /\ stdout' = stdout
                  \o <<Line("SUMMARY", "-", success_count)>>
                  \o <<Line("ALL_OK", "-", 0)>>
            /\ exitCode' = 0
    /\ pc' = "exited"
    /\ UNCHANGED <<buildImportable, dirExists, i, success_count,
                   failed_packages, results, calls>>
    /\ UNCHANGED suiteVars

OrchNext == Preflight \/ BuildStep \/ Summarize

----------------------------------------------------------------------------
(* Strings *)

Alphabet == {"v", "1", ".", "+"}

Digits == {"0", "1", "2", "3", "4", "5", "6", "7", "8", "9"}

Whitespace == {" ", "\n", "\t"}

StringsUpTo(n) == UNION {[1..k -> Alphabet] : k \in 0..n}

\* str.startswith
startswith(s, prefix) ==
    /\ Len(prefix) <= Len(s)
    /\ SubSeq(s, 1, Len(prefix)) = prefix

\* str.lstrip that removes one leading character at most.
lstrip_once(s, chars) ==
    IF s # <<>> /\ Head(s) \in chars THEN Tail(s) ELSE s

\* str.lstrip(chars): drop every leading character that is in chars
RECURSIVE lstrip(_, _)
lstrip(s, chars) ==
    IF s # <<>> /\ Head(s) \in chars THEN lstrip(Tail(s), chars) ELSE s

\* str.rstrip(chars)
RECURSIVE rstrip(_, _)
rstrip(s, chars) ==
    IF s # <<>> /\ s[Len(s)] \in chars
    THEN rstrip(SubSeq(s, 1, Len(s) - 1), chars)
    ELSE s

\* str.strip()
strip(s) == rstrip(lstrip(s, Whitespace), Whitespace)

\* s.split(sep)[0]: the text before the first separator
RECURSIVE split_first(_, _)
split_first(s, sep) ==
    IF s = <<>> \/ Head(s) = sep THEN <<>>
    ELSE <<Head(s)>> \o split_first(Tail(s), sep)

\* The position after the longest run of digits of s that starts at p (\d+
\* matches greedily; p itself when no digit is there).
RECURSIVE scan_digits(_, _)
scan_digits(s, p) ==
    IF p <= Len(s) /\ s[p] \in Digits THEN scan_digits(s, p + 1) ELSE p

\* The pattern with its third group left out: ^\d+\.\d+
matches_two_groups(s) ==
    LET e1 == scan_digits(s, 1)
        e2 == scan_digits(s, e1 + 1)
    IN  /\ e1 > 1
        /\ e1 <= Len(s) /\ s[e1] = "."
        /\ e2 > e1 + 1

\* re.search(r'^\d+\.\d+\.\d+', s) is not None
matches_semver_prefix(s) ==
    LET e1 == scan_digits(s, 1)
        e2 == scan_digits(s, e1 + 1)
        e3 == scan_digits(s, e2 + 1)
    IN  /\ e1 > 1
        /\ e1 <= Len(s) /\ s[e1] = "."
        /\ e2 > e1 + 1
        /\ e2 <= Len(s) /\ s[e2] = "."
        /\ e3 > e2 + 1

----------------------------------------------------------------------------
(* toy_package_b/__init__.py *)

FallbackVersion == <<"0", ".", "0", ".", "0", "+", "u", "n", "k", "n", "o", "w", "n">>

\* The distribution name looked up by __init__.py (line 10) and by
\* test_version_matches_metadata (line 64).
LookupName == "toy-package-a"

DistNames == {"toy-package-a", "toy-package-b"}

NotFound == [found |-> FALSE, v |-> <<>>]

Installed(v) == [found |-> TRUE, v |-> v]

\* importlib.metadata.version(name): the version, or PackageNotFoundError
version(md, name) == md[name]

\* __version__ as lines 9-13 compute it
dunder_version(md) ==
    IF version(md, LookupName).found
    THEN version(md, LookupName).v
    ELSE FallbackVersion

NotLoaded == [loaded |-> FALSE, version |-> <<>>]

\* `import toy_package_b`: the cached module, or a first execution of
\* __init__.py against the metadata of the moment.
import_toy_package_b(mod, md) ==
    IF mod.loaded THEN mod ELSE [loaded |-> TRUE, version |-> dunder_version(md)]

----------------------------------------------------------------------------
(* tests/test_version.py *)

NoGit == [kind |-> "no_git", tag |-> <<>>]          \* FileNotFoundError

NoTags == [kind |-> "no_tags", tag |-> <<>>]        \* non-zero exit: no repository or no tag

Tagged(t) == [kind |-> "tagged", tag |-> t]         \* exit 0, the tag on stdout

\* A git reference name is not empty, holds no "..", and neither begins nor
\* ends with a dot.
ValidTag(t) ==
    /\ t # <<>>
    /\ t[1] # "."
    /\ t[Len(t)] # "."
    /\ \A k \in 1..(Len(t) - 1) : ~(t[k] = "." /\ t[k + 1] = ".")

NotRun == [test |-> "-", outcome |-> "-", version |-> <<>>,
           meta |-> NotFound, parsed |-> FALSE]

Ran(test, outcome, ver, meta, parsed) ==
    [test |-> test, outcome |-> outcome, version |-> ver,
     meta |-> meta, parsed |-> parsed]

\* lines 28-32
test_version_exists(ver) == "passed"

\* lines 34-37
test_version_not_empty(ver) == IF Len(ver) > 0 THEN "passed" ELSE "failed"

\* lines 39-52
test_version_format(ver) ==
    IF matches_semver_prefix(ver) THEN "passed" ELSE "failed"

\* lines 54-72: the lookup and the assertEqual are both inside the try, and
\* `except Exception` catches PackageNotFoundError and AssertionError alike.
test_version_matches_metadata(ver, meta) ==
    IF ~meta.found THEN "skipped"                  \* version() raised
    ELSE IF ver = meta.v THEN "passed"
    ELSE "skipped"                                 \* AssertionError caught, line 70

\* lines 74-99
test_version_with_git_tag(ver, g) ==
    IF g.kind = "no_git" THEN "skipped"            \* FileNotFoundError
    ELSE IF g.kind = "no_tags" THEN "skipped"      \* CalledProcessError
    ELSE LET git_tag == lstrip(strip(g.tag \o <<"\n">>), {"v"})
         IN  IF startswith(ver, git_tag)
                \/ startswith(ver, split_first(git_tag, "."))
             THEN "passed" ELSE "failed"

\* lines 101-120
test_fallback_version_on_import_error == "passed"

\* lines 122-132: the import of packaging.version is before the try, so its
\* ImportError is not caught; `parses` is whether Version() accepts the string.
test_version_is_pep440_compliant(installed, parses) ==
    IF ~installed THEN "error"
    ELSE IF parses THEN "passed"
    ELSE "failed"

\* lines 134-177; both branches on the return code assert the same pattern.
\* Tags hold no "-", so parts[1] is the commit count and int() accepts it.
test_version_increments_with_commits(ver, g) ==
    IF g.kind = "no_git" THEN "skipped"
    ELSE IF matches_semver_prefix(ver) THEN "passed" ELSE "failed"

\* lines 183-194: a fresh interpreter imports the package and prints __version__
test_version_via_python_m(md) ==
    LET out == strip(dunder_version(md) \o <<"\n">>)
    IN  IF Len(out) = 0 THEN "failed"
        ELSE IF matches_semver_prefix(out) THEN "passed" ELSE "failed"

\* A first import of the package outside any test (the test runner importing
\* toy_package_b.tests.test_version executes toy_package_b/__init__.py).
ImportPackage ==
    /\ ~module.loaded
    /\ module' = import_toy_package_b(module, metadata)
    /\ UNCHANGED <<metadata, packagingInstalled, git, ran>>
    /\ UNCHANGED orchVars

\* The environment installs, upgrades or removes a distribution.
InstallDist(name, meta) ==
    /\ metadata[name] # meta
    /\ metadata' = [metadata EXCEPT ![name] = meta]
    /\ UNCHANGED <<module, packagingInstalled, git, ran>>
    /\ UNCHANGED orchVars

\* setUp / test body / tearDown: tearDown puts sys.modules back as setUp found
\* it (lines 11-26), so a test leaves `module` as it was.
RunTest(test, outcome, ver, meta, parsed) ==
    /\ ran' = Ran(test, outcome, ver, meta, parsed)
    /\ UNCHANGED <<metadata, module, packagingInstalled, git>>
    /\ UNCHANGED orchVars

\* The __version__ a test sees after its `import toy_package_b`
SeenVersion == import_toy_package_b(module, metadata).version

TestVersionExists ==
    RunTest("test_version_exists", test_version_exists(SeenVersion),
            SeenVersion, NotFound, FALSE)

TestVersionNotEmpty ==
    RunTest("test_version_not_empty", test_version_not_empty(SeenVersion),
            SeenVersion, NotFound, FALSE)

TestVersionFormat ==
    RunTest("test_version_format", test_version_format(SeenVersion),
            SeenVersion, NotFound, FALSE)

TestVersionMatchesMetadata ==
    RunTest("test_version_matches_metadata",
            test_version_matches_metadata(SeenVersion, version(metadata, LookupName)),
            SeenVersion, version(metadata, LookupName), FALSE)

TestVersionWithGitTag ==
    RunTest("test_version_with_git_tag",
            test_version_with_git_tag(SeenVersion, git),
            SeenVersion, NotFound, FALSE)

TestFallbackVersionOnImportError ==
    RunTest("test_fallback_version_on_import_error",
            test_fallback_version_on_import_error,
            <<>>, NotFound, FALSE)

TestVersionIsPep440Compliant ==
    \E parses \in BOOLEAN :
        RunTest("test_version_is_pep440_compliant",
                test_version_is_pep440_compliant(packagingInstalled, parses),
                SeenVersion, NotFound, packagingInstalled /\ parses)

TestVersionIncrementsWithCommits ==
    RunTest("test_version_increments_with_commits",
            test_version_increments_with_commits(SeenVersion, git),
            SeenVersion, NotFound, FALSE)

TestVersionViaPythonM ==
    RunTest("test_version_via_python_m",
            test_version_via_python_m(metadata),
            dunder_version(metadata), NotFound, FALSE)

----------------------------------------------------------------------------
(* Specifications *)

V_1_0_0 == <<"1", ".", "0", ".", "0">>

V_2_1_0_dev == <<"2", ".", "1", ".", "0", ".", "d", "e", "v", "5", "+",
                 "g", "1", "2", "3", "4", "a", "b", "c">>

Tag_v1_0_0 == <<"v", "1", ".", "0", ".", "0">>

Tag_v2_1_0 == <<"v", "2", ".", "1", ".", "0">>

SampleVersions == {V_1_0_0, V_2_1_0_dev}

SampleTags == {Tag_v1_0_0, Tag_v2_1_0}

OrchIdle ==
    /\ pc = "preflight"
    /\ buildImportable = TRUE
    /\ dirExists = [p \in Range(PACKAGES) |-> TRUE]
    /\ i = 1
    /\ success_count = 0
    /\ failed_packages = <<>>
    /\ results = <<>>
    /\ calls = <<>>
    /\ stdout = <<>>
    /\ exitCode = NoExit

SuiteIdle ==
    /\ metadata = [d \in DistNames |-> NotFound]
    /\ module = NotLoaded
    /\ packagingInstalled = TRUE
    /\ git = NoGit
    /\ ran = NotRun

\* The orchestrator: one run of build_all.py in any environment.
Init == OrchInit /\ SuiteIdle

Next == OrchNext

Spec == Init /\ [][Next]_vars

\* The test suite against a package installed from sample versions.
SuiteInit ==
    /\ OrchIdle
    /\ metadata \in [DistNames -> {NotFound} \cup {Installed(v) : v \in SampleVersions}]
    /\ module = NotLoaded
    /\ packagingInstalled \in BOOLEAN
    /\ git \in {NoGit, NoTags} \cup {Tagged(t) : t \in SampleTags}
    /\ ran = NotRun

SuiteNext ==
    \/ ImportPackage
    \/ \E name \in DistNames :
         \E meta \in {NotFound} \cup {Installed(v) : v \in SampleVersions} :
            InstallDist(name, meta)
    \/ TestVersionExists
    \/ TestVersionNotEmpty
    \/ TestVersionFormat
    \/ TestVersionMatchesMetadata
    \/ TestVersionWithGitTag
    \/ TestFallbackVersionOnImportError
    \/ TestVersionIsPep440Compliant
    \/ TestVersionIncrementsWithCommits
    \/ TestVersionViaPythonM

SpecSuite == SuiteInit /\ [][SuiteNext]_vars

\* The tag check over every short version and every short valid tag.
TagInit ==
    /\ OrchIdle
    /\ metadata \in {[d \in DistNames |-> IF d = LookupName THEN m ELSE NotFound] :
                        m \in {NotFound} \cup {Installed(v) : v \in StringsUpTo(MaxVerLen)}}
    /\ module = NotLoaded
    /\ packagingInstalled = TRUE
    /\ git \in {NoGit, NoTags}
               \cup {Tagged(t) : t \in {u \in StringsUpTo(MaxTagLen) : ValidTag(u)}}
    /\ ran = NotRun

TagNext == TestVersionWithGitTag

SpecTag == TagInit /\ [][TagNext]_vars

\* The format check over every short version string.
FormatInit ==
    /\ OrchIdle
    /\ metadata \in {[d \in DistNames |-> IF d = LookupName THEN Installed(v) ELSE NotFound] :
                        v \in StringsUpTo(MaxStrLen)}
    /\ module = NotLoaded
    /\ packagingInstalled = TRUE
    /\ git \in {NoGit, NoTags}
    /\ ran = NotRun

FormatNext ==
    \/ TestVersionFormat
    \/ TestVersionIncrementsWithCommits
    \/ TestVersionViaPythonM

SpecFormat == FormatInit /\ [][FormatNext]_vars

----------------
(* Properties of the orchestrator *)

Indices(s) == 1..Len(s)

RecordedSuccessful == {results[k].pkg : k \in {j \in Indices(results) : results[j].ok}}

RecordedFailed == {results[k].pkg : k \in {j \in Indices(results) : ~results[j].ok}}

AllRecordedSuccessful == \A k \in Indices(PACKAGES) : PACKAGES[k] \in RecordedSuccessful

SummaryLines == {k \in Indices(stdout) : stdout[k].tag = "SUMMARY"}

FailedItemLines == {k \in Indices(stdout) : stdout[k].tag = "FAILED_ITEM"}

RunCalls(pkg) == {k \in Indices(calls) : calls[k].op = "run" /\ calls[k].pkg = pkg}

ExistsCalls(pkg) == {k \in Indices(calls) : calls[k].op = "exists" /\ calls[k].pkg = pkg}

\* C1: the process exit code is 0 exactly when every package of PACKAGES was
\* recorded successful, and 1 in every other finished run (a failed preflight
\* included); a run that has not finished has no exit code.
C1_ExitCodeIffAllSuccessful ==
    /\ pc = "exited" => /\ exitCode \in {0, 1}
                        /\ exitCode = 0 <=> AllRecordedSuccessful
    /\ pc # "exited" => exitCode = NoExit

C1_Witness ==
    /\ pc = "exited"
    /\ exitCode = 0
    /\ Len(results) = Len(PACKAGES)

\* C2: a package whose directory does not exist is recorded failed, and
\* subprocess.run is never invoked for it.
C2_MissingDirFailsWithoutBuild ==
    \A k \in Indices(results) :
        ~dirExists[results[k].pkg] =>
            /\ ~results[k].ok
            /\ results[k].pkg \in Range(failed_packages)
            /\ RunCalls(results[k].pkg) = {}

C2_Witness ==
    /\ pc = "exited"
    /\ ~dirExists[PACKAGES[1]]
    /\ PACKAGES[1] \in RecordedFailed
    /\ RunCalls(PACKAGES[2]) # {}

\* C3: through the loop success_count + len(failed_packages) is the number of
\* packages processed, success_count is the number recorded successful, no
\* failed name is also recorded successful; the printed count is that number
\* and equals len(PACKAGES) minus the number of names printed as failed.
C3_SummaryCountsAgree ==
    /\ pc \in {"loop", "summary"} \/ SummaryLines # {} =>
          /\ success_count + Len(failed_packages) = Len(results)
          /\ Len(results) = i - 1
          /\ success_count = Cardinality(RecordedSuccessful)
          /\ Range(failed_packages) = RecordedFailed
          /\ Range(failed_packages) \cap RecordedSuccessful = {}
    /\ \A k \in SummaryLines :
          /\ stdout[k].n = Cardinality(RecordedSuccessful)
          /\ stdout[k].n = Len(PACKAGES) - Len(failed_packages)
          /\ stdout[k].n = Len(PACKAGES) - Cardinality(FailedItemLines)
          /\ {stdout[j].pkg : j \in FailedItemLines} = Range(failed_packages)

C3_Witness ==
    /\ pc = "exited"
    /\ ~dirExists["toy_package_a"]
    /\ exitCode = 1
    /\ failed_packages = <<"toy_package_a">>
    /\ \E k \in SummaryLines : stdout[k].n = 1

\* C4: when `build` is not importable the run goes from the preflight straight
\* to exit code 1: no directory check, no build subprocess, no build result and
\* no summary line.
C4_PreflightFailureAborts ==
    ~buildImportable =>
        /\ pc \in {"preflight", "exited"}
        /\ calls = <<>>
        /\ results = <<>>
        /\ SummaryLines = {}
        /\ pc = "exited" => exitCode = 1

C4_Witness ==
    /\ ~buildImportable
    /\ pc = "exited"
    /\ \E k \in Indices(stdout) : stdout[k].tag = "ERROR_NOBUILD"

\* C5: after a passed preflight the packages are attempted once each, in list
\* order, whatever the earlier outcomes; the summary is printed only after the
\* last one, and a run that passed the preflight exits only after all of them.
C5_EachPackageOnceInOrder ==
    /\ Len(results) <= Len(PACKAGES)
    /\ \A k \in Indices(results) : results[k].pkg = PACKAGES[k]
    /\ \A k \in Indices(PACKAGES) :
          /\ Cardinality(ExistsCalls(PACKAGES[k])) = (IF k <= Len(results) THEN 1 ELSE 0)
          /\ Cardinality(RunCalls(PACKAGES[k])) <= 1
    /\ \A j, k \in Indices(calls) :
          (j < k /\ calls[j].pkg # calls[k].pkg) =>
              (calls[j].pkg = PACKAGES[1] /\ calls[k].pkg = PACKAGES[2])
    /\ SummaryLines # {} => Len(results) = Len(PACKAGES)
    /\ (buildImportable /\ pc \in {"summary", "exited"}) => Len(results) = Len(PACKAGES)
    /\ (pc = "loop") => Len(results) < Len(PACKAGES)

C5_Witness ==
    /\ pc = "exited"
    /\ \E k \in RunCalls(PACKAGES[1]) : calls[k].res \in LaunchExceptions
    /\ RunCalls(PACKAGES[2]) # {}
    /\ Len(results) = Len(PACKAGES)

----------------------------------------------------------------------------
(* Properties of the package version and of the verification suite *)

\* p is a prefix of s
IsPrefixOf(p, s) == \E k \in 0..Len(s) : p = [j \in 1..k |-> s[j]]

\* t without its first n characters
DropFirst(t, n) == [j \in 1..(Len(t) - n) |-> t[j + n]]

\* the number of "v" characters t begins with
LeadingVs(t) ==
    CHOOSE k \in 0..Len(t) :
        /\ \A j \in 1..k : t[j] = "v"
        /\ k = Len(t) \/ t[k + 1] # "v"

\* the positions of the dots of s, and its n-th dot (past the end when s has
\* fewer dots, 0 for n = 0)
DotPositions(s) == {k \in 1..Len(s) : s[k] = "."}

NthDot(s, n) ==
    IF n = 0 THEN 0
    ELSE IF Cardinality(DotPositions(s)) < n THEN Len(s) + 1
    ELSE CHOOSE k \in DotPositions(s) :
            Cardinality({j \in DotPositions(s) : j < k}) = n - 1

\* the n-th dot-separated group of s (n >= 1), empty when s has fewer groups
Group(s, n) ==
    [j \in 1..(NthDot(s, n) - NthDot(s, n - 1) - 1) |-> s[j + NthDot(s, n - 1)]]

HasGroups(s, n) == Cardinality(DotPositions(s)) >= n - 1

IsNonNegativeInteger(g) == g # <<>> /\ \A k \in 1..Len(g) : g[k] \in Digits

BeginsWithDigit(g) == g # <<>> /\ g[1] \in Digits

\* the distribution that ships the package toy_package_b
OwnDistName == "toy-package-b"

V_v1_0 == <<"v", "1", ".", "0">>

V_abc == <<"a", "b", "c">>

MetadataTest == "test_version_matches_metadata"

\* C6: the metadata-consistency check passes when the lookup succeeds and the
\* versions are equal, fails when the lookup succeeds and they differ, and is
\* skipped only when the lookup itself raises.
C6_MetadataCheckOutcomes ==
    ran.test = MetadataTest =>
        /\ (ran.meta.found /\ ran.version = ran.meta.v) => ran.outcome = "passed"
        /\ (ran.meta.found /\ ran.version # ran.meta.v) => ran.outcome = "failed"
        /\ ran.outcome = "skipped" => ~ran.meta.found

\* C7: the compliance check is skipped (never failed, never an error) when the
\* packaging library is absent; with the library it passes exactly when the
\* version parses.
C7_ComplianceCheckOutcomes ==
    ran.test = "test_version_is_pep440_compliant" =>
        /\ ~packagingInstalled => ran.outcome = "skipped"
        /\ packagingInstalled =>
              ran.outcome = (IF ran.parsed THEN "passed" ELSE "failed")

TagCheckRan == ran.test = "test_version_with_git_tag"

\* C8 as stated: skipped when git, the repository or the tags are absent;
\* with a tag, passed exactly when the version starts with the tag less one
\* leading "v", or with the first dot-separated component of that.
C8_TagCheckOneLeadingV ==
    TagCheckRan =>
        /\ git.kind \in {"no_git", "no_tags"} => ran.outcome = "skipped"
        /\ git.kind = "tagged" =>
              LET t == IF git.tag[1] = "v" THEN DropFirst(git.tag, 1) ELSE git.tag
              IN  ran.outcome =
                     (IF IsPrefixOf(t, ran.version)
                         \/ IsPrefixOf(Group(t, 1), ran.version)
                      THEN "passed" ELSE "failed")

\* C8 amended: skipped when git, the repository or the tags are absent; with
\* a tag, passed exactly when the version starts with the tag less all of its
\* leading "v" characters, or with the first dot-separated component of that.
C8_TagCheckAllLeadingVs ==
    TagCheckRan =>
        /\ git.kind \in {"no_git", "no_tags"} => ran.outcome = "skipped"
        /\ git.kind = "tagged" =>
              LET t == DropFirst(git.tag, LeadingVs(git.tag))
              IN  ran.outcome =
                     (IF IsPrefixOf(t, ran.version)
                         \/ IsPrefixOf(Group(t, 1), ran.version)
                      THEN "passed" ELSE "failed")

C8_Witness ==
    /\ TagCheckRan
    /\ git.kind = "tagged"
    /\ git.tag = <<"v", "v", "1">>
    /\ ran.version = <<"1", ".", "1">>
    /\ ran.outcome = "passed"

\* C9: __version__ is the metadata-reported version of the package's own
\* distribution when that metadata is found and the sentinel when it is not;
\* it is never empty; with the sentinel the existence and format checks pass
\* and the metadata-consistency check is skipped.
C9_VersionFromOwnMetadata ==
    [][/\ (~module.loaded /\ module'.loaded) =>
             /\ module'.version =
                   (IF metadata[OwnDistName].found
                    THEN metadata[OwnDistName].v
                    ELSE FallbackVersion)
             /\ module'.version # <<>>
       /\ (ran'.version = FallbackVersion) =>
             /\ ran'.test = "test_version_exists" => ran'.outcome = "passed"
             /\ ran'.test = "test_version_format" => ran'.outcome = "passed"
             /\ ran'.test = MetadataTest => ran'.outcome = "skipped"
      ]_vars

FormatTests == {"test_version_format", "test_version_increments_with_commits",
                "test_version_via_python_m"}

FormatExamples ==
    /\ matches_semver_prefix(V_1_0_0)
    /\ matches_semver_prefix(FallbackVersion)
    /\ matches_semver_prefix(V_2_1_0_dev)
    /\ ~matches_semver_prefix(V_v1_0)
    /\ ~matches_semver_prefix(V_abc)

\* C10 as stated: a version the format check accepts has three first
\* dot-separated groups that are non-negative integers; the three examples
\* are accepted and the two counter-examples rejected.
C10_AcceptedHasThreeIntegerGroups ==
    /\ FormatExamples
    /\ (ran.test \in FormatTests /\ ran.outcome = "passed") =>
          /\ HasGroups(ran.version, 3)
          /\ \A n \in 1..3 : IsNonNegativeInteger(Group(ran.version, n))

\* C10 amended: the format check accepts a version exactly when its first two
\* dot-separated groups are non-negative integers and its third group begins
\* with a digit; the examples are accepted and rejected as stated.
C10_AcceptedIffIntegerPrefix ==
    /\ FormatExamples
    /\ (ran.test \in FormatTests /\ ran.outcome \in {"passed", "failed"}) =>
          (ran.outcome = "passed" <=>
              /\ HasGroups(ran.version, 3)
              /\ IsNonNegativeInteger(Group(ran.version, 1))
              /\ IsNonNegativeInteger(Group(ran.version, 2))
              /\ BeginsWithDigit(Group(ran.version, 3)))

C10_Witness ==
    /\ ran.test = "test_version_format"
    /\ ran.outcome = "passed"
    /\ ran.version = <<"1", ".", "1", ".", "1", "+">>

====
